---- MODULE Spec2Model ----
(***************************************************************************)
(* Model of AddUserToGroupComponent                                        *)
(* (app/src/components/add_user_to_group.rs): the request / selection      *)
(* state machine of the widget that adds a user to a group.                *)
(*                                                                         *)
(* One action per handler.  An action is the whole of Component::update    *)
(* (or ::change) for one message: handle_msg, the error reporting of       *)
(* update_and_report_error, and the re-render the returned ShouldRender    *)
(* asks for.  The rendered Html is state (view): the operator can only     *)
(* act on what was last rendered.                                          *)
(*                                                                         *)
(* Option<T> is a sequence of length 0 (None) or 1 (Some).                 *)
(***************************************************************************)
EXTENDS Integers, Sequences, FiniteSets

VARIABLES
    group_list,      \* AddUserToGroupComponent.group_list : Option<Vec<Group>>
    selected_group,  \* AddUserToGroupComponent.selected_group : Option<Group>
    task,            \* common's running task: Option<request>
    groups,          \* props.groups, the user's groups as the owner supplies them
    wire,            \* requests sent whose response was neither delivered nor dropped
    view,            \* the Html last rendered by view()
    msg,             \* the message handled by the last step
    should_render,   \* the ShouldRender returned by the last step
    emitted,         \* the owner callback invoked by the last step: Option<call>
    handled,         \* the request whose response the last step handled: Option<request>
    issue_selection, \* history: selected_group when the last add-mutation was issued
    panicked,        \* an expect()/unwrap() failed: the component is dead
    arg,             \* the argument of the message handled by the last step: Option
    fetches_issued,  \* history: the number of list-groups requests issued so far
    last_added       \* history: Option of the id last added with success, no selection since

vars == <<group_list, selected_group, task, groups, wire, view, msg,
          should_render, emitted, handled, issue_selection, panicked,
          arg, fetches_issued, last_added>>

(***************************************************************************)
(* Bounds                                                                  *)
(***************************************************************************)
\* Number of distinct group ids the backend and the owner know.
MaxId == 2
\* Ids are multiples of IdStride, so that they have more than one digit.
IdStride == 7
\* Cap on the requests on the wire (never reached while submission is gated).
MaxWire == 2

GroupIds == {k * IdStride : k \in 1..MaxId}
Errors == {"network error", "permission denied"}
Username == "bob"

None == <<>>
Some(x) == <<x>>

\* The display name the backend holds for each group, and the name a group
\* had when the owner loaded the user's memberships, before a rename.
BackendNames == <<"Admins", "Users", "Guests", "Staff", "Ops", "Audit">>
BackendName(id) == BackendNames[id \div IdStride]
FormerName == "Former"
Names == {BackendName(id) : id \in GroupIds} \cup {FormerName}

\* user_details::Group { id, display_name }
Group == [id : GroupIds, display_name : Names]

\* get_group_list::GetGroupListGroups, the raw record of a list-groups response
GroupListGroup == {[id |-> id, display_name |-> BackendName(id)] : id \in GroupIds}

DistinctIds(s) == \A i, j \in DOMAIN s : s[i].id = s[j].id => i = j

\* The data of a successful list-groups response: group records, ids unique.
GroupListData ==
    {s \in UNION {[1..n -> GroupListGroup] : n \in 0..MaxId} : DistinctIds(s)}

\* The values the owner may supply as props.groups: no id twice, each group
\* under its backend name or its former one.
AssignedGroupSets ==
    {A \in SUBSET {g \in Group : g.display_name \in {BackendName(g.id), FormerName}} :
        \A a, b \in A : a.id = b.id => a = b}

(***************************************************************************)
(* Pure functions                                                          *)
(***************************************************************************)
\* impl From<GroupListGroup> for Group
FromGroupListGroup(group) ==
    [id |-> group.id, display_name |-> group.display_name]

\* Mutant of CollectGroups: the groups are collected in reverse order.
RECURSIVE CollectGroups_Reversed(_)
CollectGroups_Reversed(raw) ==
    IF raw = <<>> THEN <<>>
    ELSE CollectGroups_Reversed(Tail(raw)) \o <<FromGroupListGroup(Head(raw))>>

\* response.groups.into_iter().map(Into::into).collect()
RECURSIVE CollectGroups(_)
CollectGroups(raw) ==
    IF raw = <<>> THEN <<>>
    ELSE <<FromGroupListGroup(Head(raw))>> \o CollectGroups(Tail(raw))

\* Group equality as HashSet::contains uses it.
GroupEq(a, b) == a.id = b.id

\* user_groups.contains(g)
Contains(user_groups, g) == \E u \in user_groups : GroupEq(u, g)

\* Mutant of get_selectable_group_list: the filter keeps the user's groups.
RECURSIVE get_selectable_group_list_Inverted(_, _)
get_selectable_group_list_Inverted(list, user_groups) ==
    IF list = <<>> THEN <<>>
    ELSE (IF Contains(user_groups, Head(list)) THEN <<Head(list)>> ELSE <<>>)
         \o get_selectable_group_list_Inverted(Tail(list), user_groups)

\* AddUserToGroupComponent::get_selectable_group_list
RECURSIVE get_selectable_group_list(_, _)
get_selectable_group_list(list, user_groups) ==
    IF list = <<>> THEN <<>>
    ELSE (IF ~Contains(user_groups, Head(list)) THEN <<Head(list)>> ELSE <<>>)
         \o get_selectable_group_list(Tail(list), user_groups)

DigitChar == <<"0", "1", "2", "3", "4", "5", "6", "7", "8", "9">>

RECURSIVE Digits(_)
Digits(n) ==
    IF n < 10 THEN <<DigitChar[n + 1]>>
    ELSE Digits(n \div 10) \o <<DigitChar[(n % 10) + 1]>>

\* i64::to_string: the decimal digits, with a leading "-" below zero.
I64ToString(n) == IF n < 0 THEN <<"-">> \o Digits(0 - n) ELSE Digits(n)

DigitValue(c) == CHOOSE d \in 0..9 : DigitChar[d + 1] = c

IsDigit(c) == \E d \in 0..9 : DigitChar[d + 1] = c

\* Mutant of ParseDigits: the digits are summed, the place value is lost.
RECURSIVE ParseDigits_Sum(_, _)
ParseDigits_Sum(s, acc) ==
    IF s = <<>> THEN acc
    ELSE ParseDigits_Sum(Tail(s), acc + DigitValue(Head(s)))

RECURSIVE ParseDigits(_, _)
ParseDigits(s, acc) ==
    IF s = <<>> THEN acc
    ELSE ParseDigits(Tail(s), acc * 10 + DigitValue(Head(s)))

\* str::parse::<i64>: Option of the value; None is the Err of a malformed string.
ParseI64(s) ==
    LET body == IF s # <<>> /\ Head(s) \in {"-", "+"} THEN Tail(s) ELSE s
    IN  IF body = <<>> \/ \E i \in DOMAIN body : ~IsDigit(body[i]) THEN None
        ELSE IF s # <<>> /\ Head(s) = "-" THEN Some(0 - ParseDigits(body, 0))
        ELSE Some(ParseDigits(body, 0))

\* make_select_option: <SelectOption value=group.id.to_string() text=group.display_name />
make_select_option(group) ==
    [value |-> I64ToString(group.id), text |-> group.display_name]

RECURSIVE MapSelectOptions(_)
MapSelectOptions(list) ==
    IF list = <<>> THEN <<>>
    ELSE <<make_select_option(Head(list))>> \o MapSelectOptions(Tail(list))

\* common.is_task_running()
is_task_running(t) == t # None

\* Mutant of ButtonDisabled: the running task is not looked at.
ButtonDisabled_IgnoresTask(sel, t) == sel = None

\* disabled=self.selected_group.is_none() || self.common.is_task_running()
ButtonDisabled(sel, t) == sel = None \/ is_task_running(t)

\* AddUserToGroupComponent::view
View(gl, sel, t, grps) ==
    IF gl # None
    THEN [loading  |-> FALSE,
          options  |-> MapSelectOptions(get_selectable_group_list(gl[1], grps)),
          disabled |-> ButtonDisabled(sel, t)]
    ELSE [loading |-> TRUE, options |-> <<>>, disabled |-> TRUE]

\* The group SelectionChanged stores for a payload: the id parsed back from
\* the option's value, the display name taken from the option's text.
SelectionFromProps(option_props) ==
    IF option_props = None THEN None
    ELSE Some([id           |-> ParseI64(option_props[1].value)[1],
               display_name |-> option_props[1].text])

\* requests of the two backend operations
GetGroupListRequest == [op |-> "GetGroupList", user |-> "", group |-> 0]
AddUserToGroupRequest(user, group_id) ==
    [op |-> "AddUserToGroup", user |-> user, group |-> group_id]

\* the owner callbacks
OnUserAddedToGroup(group) ==
    Some([cb |-> "on_user_added_to_group", group |-> Some(group), error |-> None])
OnError(e) == Some([cb |-> "on_error", group |-> None, error |-> Some(e)])

RemoveAt(s, i) == SubSeq(s, 1, i - 1) \o SubSeq(s, i + 1, Len(s))

(***************************************************************************)
(* State machine                                                           *)
(***************************************************************************)
\* Component::create: both fields None, the list-groups request issued, and
\* the first render.
Init ==
    /\ group_list = None
    /\ selected_group = None
    /\ task = Some(GetGroupListRequest)
    /\ groups \in AssignedGroupSets
    /\ wire = <<GetGroupListRequest>>
    /\ view = View(None, None, Some(GetGroupListRequest), groups)
    /\ msg = [type |-> "create", ok |-> TRUE]
    /\ should_render = TRUE
    /\ emitted = None
    /\ handled = None
    /\ issue_selection = None
    /\ panicked = FALSE
    /\ arg = None
    /\ fetches_issued = 1
    /\ last_added = None

\* The re-render a ShouldRender of true asks for.
Render(r) ==
    /\ should_render' = r
    /\ view' = IF r THEN View(group_list', selected_group', task', groups') ELSE view

\* The response of the running task arrives: it is the last request sent.
TaskResponds(op) ==
    /\ ~panicked
    /\ task # None
    /\ task[1].op = op
    /\ wire # <<>>
    /\ handled' = task
    /\ wire' = RemoveAt(wire, Len(wire))

\* Mutant of GroupListResponseOk: cancel_task is not called.
GroupListResponseOk_NoCancel ==
    \E data \in GroupListData :
        /\ TaskResponds("GetGroupList")
        /\ msg' = [type |-> "GroupListResponse", ok |-> TRUE]
        /\ arg' = Some(data)
        /\ UNCHANGED <<fetches_issued, last_added>>
        /\ group_list' = Some(CollectGroups(data))
        /\ emitted' = None
        /\ UNCHANGED <<task, selected_group, groups, issue_selection, panicked>>
        /\ Render(TRUE)

\* Msg::GroupListResponse(Ok(data))
GroupListResponseOk ==
    \E data \in GroupListData :
        /\ TaskResponds("GetGroupList")
        /\ msg' = [type |-> "GroupListResponse", ok |-> TRUE]
        /\ arg' = Some(data)
        /\ UNCHANGED <<fetches_issued, last_added>>
        /\ group_list' = Some(CollectGroups(data))
        /\ task' = None
        /\ emitted' = None
        /\ UNCHANGED <<selected_group, groups, issue_selection, panicked>>
        /\ Render(TRUE)

\* Mutant of GroupListResponseErr: a failed fetch stores an empty list.
GroupListResponseErr_StoresEmpty ==
    \E e \in Errors :
        /\ TaskResponds("GetGroupList")
        /\ msg' = [type |-> "GroupListResponse", ok |-> FALSE]
        /\ arg' = None
        /\ UNCHANGED <<fetches_issued, last_added>>
        /\ group_list' = Some(<<>>)
        /\ task' = None
        /\ emitted' = OnError(e)
        /\ UNCHANGED <<selected_group, groups, issue_selection, panicked>>
        /\ Render(TRUE)

\* Msg::GroupListResponse(Err(e)): `response?` returns the error, which
\* update_and_report_error hands to on_error.
GroupListResponseErr ==
    \E e \in Errors :
        /\ TaskResponds("GetGroupList")
        /\ msg' = [type |-> "GroupListResponse", ok |-> FALSE]
        /\ arg' = None
        /\ UNCHANGED <<fetches_issued, last_added>>
        /\ task' = None
        /\ emitted' = OnError(e)
        /\ UNCHANGED <<group_list, selected_group, groups, issue_selection, panicked>>
        /\ Render(TRUE)

\* Mutant of AddGroupResponseOk: the list is dropped to have it loaded again.
AddGroupResponseOk_DropsCatalog ==
    /\ TaskResponds("AddUserToGroup")
    /\ msg' = [type |-> "AddGroupResponse", ok |-> TRUE]
    /\ arg' = None
    /\ last_added' = Some(task[1].group)
    /\ UNCHANGED fetches_issued
    /\ task' = None
    /\ group_list' = None
    /\ UNCHANGED <<selected_group, groups, issue_selection>>
    /\ IF selected_group = None
       THEN /\ panicked' = TRUE
            /\ emitted' = None
            /\ UNCHANGED <<view, should_render>>
       ELSE /\ panicked' = FALSE
            /\ emitted' = OnUserAddedToGroup(selected_group[1])
            /\ Render(TRUE)

\* Mutant of AddGroupResponseOk: cancel_task is not called.
AddGroupResponseOk_NoCancel ==
    /\ TaskResponds("AddUserToGroup")
    /\ msg' = [type |-> "AddGroupResponse", ok |-> TRUE]
    /\ arg' = None
    /\ last_added' = Some(task[1].group)
    /\ UNCHANGED fetches_issued
    /\ UNCHANGED <<task, group_list, selected_group, groups, issue_selection>>
    /\ IF selected_group = None
       THEN /\ panicked' = TRUE
            /\ emitted' = None
            /\ UNCHANGED <<view, should_render>>
       ELSE /\ panicked' = FALSE
            /\ emitted' = OnUserAddedToGroup(selected_group[1])
            /\ Render(TRUE)

\* Mutant of AddGroupResponseOk: the selection is taken, not cloned.
AddGroupResponseOk_ClearsSelection ==
    /\ TaskResponds("AddUserToGroup")
    /\ msg' = [type |-> "AddGroupResponse", ok |-> TRUE]
    /\ arg' = None
    /\ last_added' = Some(task[1].group)
    /\ UNCHANGED fetches_issued
    /\ task' = None
    /\ selected_group' = None
    /\ UNCHANGED <<group_list, groups, issue_selection>>
    /\ IF selected_group = None
       THEN /\ panicked' = TRUE
            /\ emitted' = None
            /\ UNCHANGED <<view, should_render>>
       ELSE /\ panicked' = FALSE
            /\ emitted' = OnUserAddedToGroup(selected_group[1])
            /\ Render(TRUE)

\* Msg::AddGroupResponse(Ok(_)): the task is cancelled, then the selected
\* group is cloned (expect) and handed to on_user_added_to_group.
AddGroupResponseOk ==
    /\ TaskResponds("AddUserToGroup")
    /\ msg' = [type |-> "AddGroupResponse", ok |-> TRUE]
    /\ arg' = None
    /\ last_added' = Some(task[1].group)
    /\ UNCHANGED fetches_issued
    /\ task' = None
    /\ UNCHANGED <<group_list, selected_group, groups, issue_selection>>
    /\ IF selected_group = None
       THEN \* expect("Could not get selected group") panics
            /\ panicked' = TRUE
            /\ emitted' = None
            /\ UNCHANGED <<view, should_render>>
       ELSE /\ panicked' = FALSE
            /\ emitted' = OnUserAddedToGroup(selected_group[1])
            /\ Render(TRUE)

\* Mutant of AddGroupResponseErr: the selection is dropped with the task.
AddGroupResponseErr_ClearsSelection ==
    \E e \in Errors :
        /\ TaskResponds("AddUserToGroup")
        /\ msg' = [type |-> "AddGroupResponse", ok |-> FALSE]
        /\ arg' = None
        /\ UNCHANGED <<fetches_issued, last_added>>
        /\ task' = None
        /\ selected_group' = None
        /\ emitted' = OnError(e)
        /\ UNCHANGED <<group_list, groups, issue_selection, panicked>>
        /\ Render(TRUE)

\* Msg::AddGroupResponse(Err(e)): `response?` returns before anything else
\* runs; update_and_report_error cancels the task and calls on_error.
AddGroupResponseErr ==
    \E e \in Errors :
        /\ TaskResponds("AddUserToGroup")
        /\ msg' = [type |-> "AddGroupResponse", ok |-> FALSE]
        /\ arg' = None
        /\ UNCHANGED <<fetches_issued, last_added>>
        /\ task' = None
        /\ emitted' = OnError(e)
        /\ UNCHANGED <<group_list, selected_group, groups, issue_selection, panicked>>
        /\ Render(TRUE)

\* Mutant of handle_SelectionChanged: choosing the selected group again clears
\* the selection.
handle_SelectionChanged_Toggles(option_props) ==
    LET was_some == selected_group # None
        parsed   == IF option_props = None THEN Some(0)
                    ELSE ParseI64(option_props[1].value)
    IN  /\ msg' = [type |-> "SelectionChanged", ok |-> TRUE]
        /\ arg' = Some(option_props)
        /\ last_added' = None
        /\ UNCHANGED fetches_issued
        /\ emitted' = None
        /\ handled' = None
        /\ UNCHANGED <<group_list, task, groups, wire, issue_selection>>
        /\ IF parsed = None
           THEN /\ panicked' = TRUE
                /\ UNCHANGED <<selected_group, view, should_render>>
           ELSE /\ panicked' = FALSE
                /\ selected_group' = IF SelectionFromProps(option_props) = selected_group
                                     THEN None
                                     ELSE SelectionFromProps(option_props)
                /\ Render((selected_group' # None) # was_some)

\* Mutant of handle_SelectionChanged: it returns whether the selection changed.
handle_SelectionChanged_RendersOnChange(option_props) ==
    LET parsed == IF option_props = None THEN Some(0)
                  ELSE ParseI64(option_props[1].value)
    IN  /\ msg' = [type |-> "SelectionChanged", ok |-> TRUE]
        /\ arg' = Some(option_props)
        /\ last_added' = None
        /\ UNCHANGED fetches_issued
        /\ emitted' = None
        /\ handled' = None
        /\ UNCHANGED <<group_list, task, groups, wire, issue_selection>>
        /\ IF parsed = None
           THEN /\ panicked' = TRUE
                /\ UNCHANGED <<selected_group, view, should_render>>
           ELSE /\ panicked' = FALSE
                /\ selected_group' = SelectionFromProps(option_props)
                /\ Render(selected_group' # selected_group)

\* Msg::SelectionChanged(option_props)
handle_SelectionChanged(option_props) ==
    LET was_some == selected_group # None
        parsed   == IF option_props = None THEN Some(0)
                    ELSE ParseI64(option_props[1].value)
    IN  /\ msg' = [type |-> "SelectionChanged", ok |-> TRUE]
        /\ arg' = Some(option_props)
        /\ last_added' = None
        /\ UNCHANGED fetches_issued
        /\ emitted' = None
        /\ handled' = None
        /\ UNCHANGED <<group_list, task, groups, wire, issue_selection>>
        /\ IF parsed = None
           THEN \* parse::<i64>().unwrap() panics
                /\ panicked' = TRUE
                /\ UNCHANGED <<selected_group, view, should_render>>
           ELSE /\ panicked' = FALSE
                /\ selected_group' = SelectionFromProps(option_props)
                /\ Render((selected_group' # None) # was_some)

\* The operator changes the choice in the <Select>: the event carries one of
\* the rendered options, or none.
SelectionChanged ==
    /\ ~panicked
    /\ ~view.loading
    /\ \E option_props \in {None} \cup {Some(view.options[i]) : i \in DOMAIN view.options} :
          handle_SelectionChanged(option_props)

\* Mutant of submit_add_group: the None arm returns Ok(true).
submit_add_group_AlwaysRenders ==
    /\ msg' = [type |-> "SubmitAddGroup", ok |-> TRUE]
    /\ arg' = None
    /\ UNCHANGED <<fetches_issued, last_added>>
    /\ emitted' = None
    /\ handled' = None
    /\ UNCHANGED <<group_list, selected_group, groups, panicked>>
    /\ IF selected_group = None
       THEN /\ UNCHANGED <<task, wire, issue_selection>>
            /\ Render(TRUE)
       ELSE LET request == AddUserToGroupRequest(Username, selected_group[1].id)
            IN  /\ task' = Some(request)
                /\ wire' = Append(wire, request)
                /\ issue_selection' = selected_group
                /\ Render(TRUE)

\* AddUserToGroupComponent::submit_add_group
submit_add_group ==
    /\ msg' = [type |-> "SubmitAddGroup", ok |-> TRUE]
    /\ arg' = None
    /\ UNCHANGED <<fetches_issued, last_added>>
    /\ emitted' = None
    /\ handled' = None
    /\ UNCHANGED <<group_list, selected_group, groups, panicked>>
    /\ IF selected_group = None
       THEN /\ UNCHANGED <<task, wire, issue_selection>>
            /\ Render(FALSE)
       ELSE LET request == AddUserToGroupRequest(Username, selected_group[1].id)
            IN  /\ task' = Some(request)
                /\ wire' = Append(wire, request)
                /\ issue_selection' = selected_group
                /\ Render(TRUE)

\* The operator clicks the "Add to group" button as it was last rendered.
SubmitAddGroup ==
    /\ ~panicked
    /\ ~view.loading
    /\ ~view.disabled
    /\ Len(wire) < MaxWire
    /\ submit_add_group

\* The properties the owner may supply next: the same groups again, or the
\* groups with one membership added or removed.
NextGroups(grps) ==
    {A \in AssignedGroupSets :
        \/ A = grps
        \/ \E g \in Group : (g \notin grps /\ A = grps \cup {g})
                          \/ (g \in grps /\ A = grps \ {g})}

\* Mutant of Change: new properties make the component fetch the list again.
Change_Refetches ==
    \E new_groups \in NextGroups(groups) :
        /\ ~panicked
        /\ Len(wire) < MaxWire
        /\ msg' = [type |-> "change", ok |-> TRUE]
        /\ arg' = None
        /\ fetches_issued' = fetches_issued + 1
        /\ task' = Some(GetGroupListRequest)
        /\ wire' = Append(wire, GetGroupListRequest)
        /\ groups' = new_groups
        /\ emitted' = None
        /\ handled' = None
        /\ UNCHANGED <<group_list, selected_group, issue_selection, panicked, last_added>>
        /\ Render(TRUE)

\* Component::change: the owner supplies new properties.
Change ==
    \E new_groups \in NextGroups(groups) :
        /\ ~panicked
        /\ msg' = [type |-> "change", ok |-> TRUE]
        /\ arg' = None
        /\ UNCHANGED <<fetches_issued, last_added>>
        /\ groups' = new_groups
        /\ emitted' = None
        /\ handled' = None
        /\ UNCHANGED <<group_list, selected_group, task, wire, issue_selection, panicked>>
        /\ Render(new_groups # groups)

Next ==
    \/ GroupListResponseOk
    \/ GroupListResponseErr
    \/ AddGroupResponseOk
    \/ AddGroupResponseErr
    \/ SelectionChanged
    \/ SubmitAddGroup
    \/ Change

Spec == Init /\ [][Next]_vars

\* A response handed to the component by the running task.
Responses ==
    \/ GroupListResponseOk
    \/ GroupListResponseErr
    \/ AddGroupResponseOk
    \/ AddGroupResponseErr

\* The component when the response of every issued request is delivered.
SpecFair == Spec /\ WF_vars(Responses)

\* Msg::SubmitAddGroup delivered whatever the rendered button says (a stale
\* or disabled affordance triggered).
SubmitAddGroupMsg ==
    /\ ~panicked
    /\ Len(wire) < MaxWire
    /\ submit_add_group

\* The response of a request whose task was replaced is dropped unhandled.
DropStaleResponse ==
    \E i \in DOMAIN wire :
        /\ ~panicked
        /\ task # None => i < Len(wire)
        /\ wire' = RemoveAt(wire, i)
        /\ msg' = [type |-> "dropped", ok |-> TRUE]
        /\ arg' = None
        /\ UNCHANGED <<fetches_issued, last_added>>
        /\ emitted' = None
        /\ handled' = None
        /\ UNCHANGED <<group_list, selected_group, task, groups, view,
                       should_render, issue_selection, panicked>>

NextMsg ==
    \/ Next
    \/ SubmitAddGroupMsg
    \/ DropStaleResponse

\* The component with its messages delivered directly.
SpecMsg == Init /\ [][NextMsg]_vars

\* The payloads a SelectionChanged message can carry: a value string (the
\* decimal form of an id, or an empty one that does not parse) and a text
\* (the backend's name of that id, or another one).
SelectOptionProps ==
    UNION {{[value |-> I64ToString(id), text |-> t] :
               t \in {BackendName(id), FormerName}} : id \in GroupIds}
    \cup {[value |-> <<>>, text |-> FormerName]}

\* Msg::SelectionChanged delivered with any payload, whatever was rendered.
SelectionChangedMsg ==
    /\ ~panicked
    /\ \E option_props \in {None} \cup {Some(p) : p \in SelectOptionProps} :
          handle_SelectionChanged(option_props)

NextProps ==
    \/ Next
    \/ SelectionChangedMsg

\* The component with SelectionChanged payloads that were not rendered.
SpecProps == Init /\ [][NextProps]_vars

(***************************************************************************)
(* Properties                                                              *)
(***************************************************************************)
AddSucceeded == msg.type = "AddGroupResponse" /\ msg.ok
AddFailed == msg.type = "AddGroupResponse" /\ ~msg.ok
FetchFailed == msg.type = "GroupListResponse" /\ ~msg.ok

EmittedError == emitted # None /\ emitted[1].cb = "on_error"
EmittedAdded == emitted # None /\ emitted[1].cb = "on_user_added_to_group"

\* The selectable list of the current catalog and the current props.groups.
SelectableList == get_selectable_group_list(group_list[1], groups)

InSeq(x, s) == \E i \in DOMAIN s : s[i] = x

C2_CallbackGetsAssignedGroup ==
    (AddSucceeded /\ ~panicked) =>
        /\ EmittedAdded
        /\ emitted[1].group[1].id = handled[1].group
        /\ task = None

\* C3: when the add-mutation fails, the error goes to on_error, the task is
\* cleared, on_user_added_to_group is not invoked, the selection is the one
\* from before the response, and the button is rendered for that selection.
C3_FailureKeepsSelection ==
    [][(msg'.type = "AddGroupResponse" /\ ~msg'.ok) =>
          /\ emitted' # None
          /\ emitted'[1].cb = "on_error"
          /\ emitted'[1].error # None
          /\ task' = None
          /\ selected_group' = selected_group
          /\ view'.disabled = (selected_group = None)]_vars

\* C3 witness: a failed add-mutation was handled with a selection present.
C3_Witness ==
    /\ AddFailed
    /\ EmittedError
    /\ selected_group # None
    /\ selected_group = issue_selection
    /\ ~view.disabled

\* C4: when the list-groups fetch fails, on_error is invoked and the catalog
\* stays absent; from then on every step leaves the catalog absent, issues
\* no request, and leaves the loading view with no selectable list.
C4_FetchFailureIsTerminal ==
    [][/\ (msg'.type = "GroupListResponse" /\ ~msg'.ok) =>
              /\ emitted' # None
              /\ emitted'[1].cb = "on_error"
              /\ group_list' = None
              /\ task' = None
              /\ wire' = <<>>
              /\ view'.loading
       /\ (group_list = None /\ task = None) =>
              /\ group_list' = None
              /\ task' = None
              /\ wire' = <<>>
              /\ selected_group' = None
              /\ view'.loading
              /\ view'.options = <<>>]_vars

\* C4 witness: the fetch has failed and the owner has since changed the
\* properties, which re-rendered the component.
C4_Witness ==
    /\ group_list = None
    /\ task = None
    /\ msg.type = "change"
    /\ should_render
    /\ view.loading

\* C5: the selectable list derived from the catalog C and the assigned groups
\* A has no group whose id is in A, keeps the relative order of C, and has
\* |C| minus the number of groups of C whose id is in A elements.
C5_SelectableList ==
    group_list # None =>
        LET C == group_list[1]
            S == SelectableList
            InA(g) == \E a \in groups : a.id = g.id
        IN  /\ \A i \in DOMAIN S : ~InA(S[i])
            /\ \A i \in DOMAIN S : InSeq(S[i], C)
            /\ \A i, j \in DOMAIN S :
                  i < j => \E p, q \in DOMAIN C : p < q /\ C[p] = S[i] /\ C[q] = S[j]
            /\ Len(S) = Len(C) - Cardinality({p \in DOMAIN C : InA(C[p])})

\* C5 witness: a catalog of which some groups are assigned and some are not,
\* one of the assigned ones under another display name.
C5_Witness ==
    /\ group_list # None
    /\ Len(SelectableList) > 0
    /\ Len(SelectableList) < Len(group_list[1])
    /\ \E a \in groups : \E p \in DOMAIN group_list[1] :
          a.id = group_list[1][p].id /\ a # group_list[1][p]

\* C6: a SubmitAddGroup handled with no selection issues no request, leaves
\* the catalog, the selection and the task as they are, invokes no callback
\* and returns "no redraw".
C6_SubmitWithoutSelectionIsNoOp ==
    [][(msg'.type = "SubmitAddGroup" /\ selected_group = None) =>
          /\ UNCHANGED <<group_list, selected_group, task, wire, groups, view, panicked>>
          /\ emitted' = None
          /\ should_render' = FALSE]_vars

\* C6 witness: a SubmitAddGroup was handled with the catalog loaded and no
\* selection.
C6_Witness ==
    /\ msg.type = "SubmitAddGroup"
    /\ group_list # None
    /\ selected_group = None
    /\ task = None
    /\ ~should_render

\* C7: whenever the catalog is present, the selection, if present, is a
\* member of the selectable list of the current catalog and the current
\* props.groups.
C7_SelectionIsSelectable ==
    (group_list # None /\ selected_group # None) =>
        InSeq(selected_group[1], SelectableList)

\* C8: when an add-mutation response is handled, the selection is the one
\* the component had when the mutation was issued.
C8_ResponseSeesIssueState ==
    msg.type = "AddGroupResponse" => selected_group = issue_selection

\* C9: a successful add-mutation response is never handled with the
\* selection absent.
C9_SuccessHasSelection == ~(AddSucceeded /\ selected_group = None)

C11_OneFetch ==
    /\ fetches_issued = 1
    /\ Cardinality({i \in DOMAIN wire : wire[i].op = "GetGroupList"}) <= 1
    /\ (\E i \in DOMAIN wire : wire[i].op = "GetGroupList") => group_list = None

\* C11 witness: a submission has been answered after the list was fetched,
\* and the owner has changed the properties since.
C11_Witness ==
    /\ msg.type = "change"
    /\ group_list # None
    /\ issue_selection # None
    /\ task = None
    /\ fetches_issued = 1

\* C12: a SelectionChanged handled right after a SelectionChanged with the
\* same payload leaves the selection as the first one set it and returns
\* "no redraw".
C12_SelectIdempotent ==
    [][(msg.type = "SelectionChanged" /\ msg'.type = "SelectionChanged"
            /\ arg' = arg /\ ~panicked') =>
          /\ selected_group' = selected_group
          /\ should_render' = FALSE]_vars

\* C12 witness: a SelectionChanged with a concrete group was handled while
\* that group was already selected.
C12_Witness ==
    /\ msg.type = "SelectionChanged"
    /\ arg # None
    /\ arg[1] # None
    /\ selected_group = SelectionFromProps(arg[1])
    /\ ~should_render

\* C13: a task is running exactly when a request has been issued whose
\* response has not arrived, and that request is the task's.
C13_FlagIffOutstanding ==
    /\ is_task_running(task) <=> wire # <<>>
    /\ task # None => wire = <<task[1]>>

\* C13 witness: the response of an add-mutation has just been handled and
\* nothing is running or outstanding.
C13_Witness ==
    /\ msg.type = "AddGroupResponse"
    /\ ~panicked
    /\ ~is_task_running(task)
    /\ wire = <<>>

\* A SelectionChanged with a concrete payload was handled by the last step.
SelectedConcrete ==
    /\ msg.type = "SelectionChanged"
    /\ arg # None
    /\ arg[1] # None
    /\ ~panicked

C15_RedrawIffPresenceFlipped ==
    [][(msg'.type = "SelectionChanged" /\ ~panicked') =>
          /\ should_render' = ((selected_group' # None) # (selected_group # None))
          /\ UNCHANGED <<group_list, task, wire, fetches_issued>>
          /\ emitted' = None]_vars

\* C15 witness: while a mutation was in flight one present selection was
\* replaced by another, and no redraw was reported.
C15_Witness ==
    /\ msg.type = "SelectionChanged"
    /\ selected_group # None
    /\ task # None
    /\ issue_selection # None
    /\ selected_group # issue_selection
    /\ ~should_render

\* C16: while the catalog is absent the selection is absent, the view shows
\* only the loading text, and no add-mutation was ever issued.
C16_LoadingHasNoAssignment ==
    group_list = None =>
        /\ selected_group = None
        /\ issue_selection = None
        /\ \A i \in DOMAIN wire : wire[i].op = "GetGroupList"
        /\ task # None => task[1].op = "GetGroupList"
        /\ view.loading

\* C16 witness: the fetch has just failed, the catalog is absent for good.
C16_Witness ==
    /\ FetchFailed
    /\ group_list = None
    /\ task = None
    /\ view.loading

\* C17: a successful fetch makes the catalog present in that step, equal to
\* the response's records one to one (length, order, ids, display names),
\* and clears the task; once present the catalog never changes.
C17_CatalogFromResponse ==
    [][/\ (msg'.type = "GroupListResponse" /\ msg'.ok) =>
              /\ group_list = None
              /\ group_list' # None
              /\ Len(group_list'[1]) = Len(arg'[1])
              /\ \A i \in DOMAIN arg'[1] :
                    /\ group_list'[1][i].id = arg'[1][i].id
                    /\ group_list'[1][i].display_name = arg'[1][i].display_name
              /\ task' = None
       /\ group_list # None => group_list' = group_list]_vars

\* C17 witness: a catalog of several groups is still in place after a
\* submission was answered.
C17_Witness ==
    /\ group_list # None
    /\ Len(group_list[1]) >= 2
    /\ msg.type = "AddGroupResponse"

\* C18: with every response delivered, a state with a selection and an
\* add-mutation in flight leads to a state with no task running; a running
\* task is cleared only by the step that handles its response.
C18_SubmittingEnds ==
    /\ (selected_group # None /\ task # None /\ task[1].op = "AddUserToGroup")
           ~> (task = None)
    /\ [][(task # None /\ task' # task) =>
             /\ task' = None
             /\ msg'.type = IF task[1].op = "AddUserToGroup"
                            THEN "AddGroupResponse" ELSE "GroupListResponse"]_vars

\* C18 witness: a submission has just been issued for the selection.
C18_Witness ==
    /\ msg.type = "SubmitAddGroup"
    /\ selected_group # None
    /\ task # None
    /\ task[1].op = "AddUserToGroup"
    /\ task[1].group = selected_group[1].id

\* C19: once the add-mutation for a group has succeeded and the owner has
\* that group among props.groups, no submit issues an add-mutation for the
\* same group unless a selection was made since.
C19_NoRepeatedAdd ==
    [][(msg'.type = "SubmitAddGroup" /\ task' # task /\ task' # None) =>
          ~(/\ last_added = Some(task'[1].group)
            /\ \E a \in groups : a.id = task'[1].group)]_vars

\* C20: each handled response invokes exactly the callback of its outcome:
\* a successful add on_user_added_to_group, a failed add or fetch on_error;
\* a successful fetch, a selection, a submit and a property change none.
C20_OneCallbackPerResponse ==
    /\ AddSucceeded => EmittedAdded
    /\ (AddFailed \/ FetchFailed) => EmittedError
    /\ ~(AddSucceeded \/ AddFailed \/ FetchFailed) => emitted = None

====
